---- MODULE Spec2Model ----
(***************************************************************************)
(* Hours reconciliation and minimum-billing engine of hours-svelte:        *)
(*   rounding.ts         precision rounding and overlap resolution         *)
(*   the minimum-billing module: blocks, padding records and the merge     *)
(*   hour-entries.ts     creating and updating the stored entries          *)
(*                                                                         *)
(* Time is counted in whole minutes of local time since midnight of the    *)
(* day the run is about.  The source computes on epoch milliseconds; every *)
(* operation it applies (floor/ceil to the 5-minute grid, +, -, <, max,    *)
(* min) is the same on minutes, and the 5-minute grid of the epoch is the  *)
(* 5-minute grid of local time for every zone offset that is a multiple of *)
(* five minutes.                                                           *)
(***************************************************************************)
EXTENDS Integers, Sequences, FiniteSets, TLC

VARIABLES
    entries,    \* HourEntry[]: the raw entries handed to the run
    pc,         \* how far the run has come
    rounded,    \* result of applyPrecisionRounding
    precise,    \* result of handlePrecisionOverlapping
    resolved,   \* result of handleOverlapping (= applyHoursBalanceRounding)
    padding,    \* result of applyMinimumBilling
    merged,     \* result of mergeWithRoundedEntries
    store,      \* the rows of the hour_entries table, row i having id i
    updating,   \* the updateHourEntry call between its select and its update
    deleting,   \* the deleteHourEntry call between its select and its update
    confirming, \* the confirmDay call between its select and its last update
    thrown      \* the code of the HourEntryError the last call threw, if it
                \* threw, in the runs that look at the errors

vars == <<entries, pc, rounded, precise, resolved, padding, merged, store,
          updating, deleting, confirming, thrown>>

-----------------------------------------------------------------------------
(* Program constants and the null value                                    *)

\* `number | null`, `Date | null`: the null of a nullable id or time
NULL == 0

\* a field of Partial<HourEntryInput> that the request leaves out
UNDEFINED == -1

ROUNDING_INTERVAL_MINUTES == 5

END_OF_DAY_LIMIT_MINUTES == 23 * 60 + 55

\* Date.setHours(23, 55, 0, 0) keeps the local calendar day: a day is 24 h
MinutesPerDay == 24 * 60

-----------------------------------------------------------------------------
(* Bounds of the model                                                     *)

\* the run sees at most this many raw entries
MaxEntries == 3

\* the raw entries lie in the last GridCells 5-minute cells before 23:55
GridCells == 3

WindowStart == END_OF_DAY_LIMIT_MINUTES - GridCells * ROUNDING_INTERVAL_MINUTES

\* the grid lines of the window; 23:55 is the last one
GridLines == { WindowStart + c * ROUNDING_INTERVAL_MINUTES : c \in 0 .. GridCells }

\* the rounding runs see at most this many raw entries ...
MaxRoundEntries == 2

\* ... whose times are any of the first RoundWindow of 23:35, 23:38, 23:40,
\* 23:43, ...: the grid lines and the third minute after each of them
RoundWindow == 6

RoundTimes ==
    { END_OF_DAY_LIMIT_MINUTES - 20 + (m \div 2) * ROUNDING_INTERVAL_MINUTES + (m % 2) * 3 :
        m \in 0 .. RoundWindow - 1 }

PhaseIds == {1, 2, 3}

\* the runs with missing lookup data see at most this many raw entries, of
\* the phases above or of no phase, in any order
MaxLookupEntries == 2

LookupPhaseIds == PhaseIds \cup {NULL}

\* getCaseConfig's answer for a phase without case configuration
NoConfig == <<>>

\* the table holds at most this many rows
MaxStored == 2

UserIds == {1, 2}

\* the times a request may name: 23:50, 23:54, 23:55 and 23:59 of one day,
\* 00:00 and 00:05 of the next (the first day is day 1: no time is NULL)
StoreTimes ==
    { MinutesPerDay + 23 * 60 + 50, MinutesPerDay + 23 * 60 + 54,
      MinutesPerDay + 23 * 60 + 55, MinutesPerDay + 23 * 60 + 59,
      2 * MinutesPerDay, 2 * MinutesPerDay + 5 }

\* the times a request may name in the runs over two days: 10:00 and 11:00
\* of one day, 10:00 of the next
DayTimes ==
    { MinutesPerDay + 10 * 60, MinutesPerDay + 11 * 60,
      2 * MinutesPerDay + 10 * 60 }

\* a description that is not blank
Text == 1

\* new Date() of a soft delete: a time that is not null
Now == 1

\* no call of the kind is between its database steps
NoCall == <<>>

\* the last call returned
NoError == "none"

-----------------------------------------------------------------------------
(* The caller's lookups: phase -> customer, phase -> case configuration    *)

\* phases 1 and 2 are two cases of customer 1, phase 3 is a case of
\* customer 2 without a minimum, the null phase resolves to nothing
getCustomerId(phaseId) ==
    CASE phaseId = 1 -> 1
      [] phaseId = 2 -> 1
      [] phaseId = 3 -> 2
      [] OTHER -> NULL

\* CaseConfig | null, as a sequence of at most one CaseConfig
getCaseConfig(phaseId) ==
    CASE phaseId = 1 -> << [caseId |-> 1, minBillableTimeInMin |-> 15] >>
      [] phaseId = 2 -> << [caseId |-> 2, minBillableTimeInMin |-> 10] >>
      [] phaseId = 3 -> << [caseId |-> 3, minBillableTimeInMin |-> 0] >>
      [] OTHER -> NoConfig

-----------------------------------------------------------------------------
(* rounding.ts                                                             *)

\* roundDown with Math.round in the place of Math.floor
roundDownNearest(date, intervalMinutes) ==
    ((2 * date + intervalMinutes) \div (2 * intervalMinutes)) * intervalMinutes

\* Math.floor(t / ms) * ms
roundDown(date, intervalMinutes) == (date \div intervalMinutes) * intervalMinutes

\* roundUp with Math.floor in the place of Math.ceil
roundUpFloor(date, intervalMinutes) == (date \div intervalMinutes) * intervalMinutes

\* Math.ceil(t / ms) * ms
\* roundUp as floor + 1 in the place of Math.ceil
roundUpNext(date, intervalMinutes) ==
    (date \div intervalMinutes + 1) * intervalMinutes

roundUp(date, intervalMinutes) ==
    ((date + intervalMinutes - 1) \div intervalMinutes) * intervalMinutes

\* rangesOverlap counting two ranges that only touch as overlapping
rangesOverlapTouching(start1, end1, start2, end2) == start1 <= end2 /\ start2 <= end1

rangesOverlap(start1, end1, start2, end2) == start1 < end2 /\ start2 < end1

Max(a, b) == IF a >= b THEN a ELSE b

Min(a, b) == IF a <= b THEN a ELSE b

getOverlapMs(start1, end1, start2, end2) ==
    IF ~rangesOverlap(start1, end1, start2, end2)
    THEN 0
    ELSE Min(end1, end2) - Max(start1, start2)

\* Array.prototype.sort((a, b) => a.startTime - b.startTime): stable, so an
\* element goes behind every element whose start is not later than its own
RECURSIVE InsertByStart(_, _)
InsertByStart(e, sorted) ==
    IF sorted = <<>> THEN <<e>>
    ELSE IF e.startTime < Head(sorted).startTime
         THEN <<e>> \o sorted
         ELSE <<Head(sorted)>> \o InsertByStart(e, Tail(sorted))

RECURSIVE SortByStart(_)
SortByStart(seq) ==
    IF seq = <<>> THEN <<>>
    ELSE InsertByStart(seq[Len(seq)], SortByStart(SubSeq(seq, 1, Len(seq) - 1)))

\* the .map() callback of applyPrecisionRounding
RoundEntry(entry) ==
    LET roundedStart == roundDown(entry.startTime, ROUNDING_INTERVAL_MINUTES)
        roundedEnd   == roundUp(entry.endTime, ROUNDING_INTERVAL_MINUTES)
    IN  [ hourEntryId       |-> entry.id,
          phaseId           |-> entry.phaseId,
          worktypeId        |-> entry.worktypeId,
          startTime         |-> roundedStart,
          endTime           |-> roundedEnd,
          source            |-> "inside-rounded",
          originalStartTime |-> entry.startTime,
          originalEndTime   |-> entry.endTime,
          startRounded      |-> roundedStart # entry.startTime,
          endRounded        |-> roundedEnd # entry.endTime ]

\* applyPrecisionRounding without the sort of line 99
applyPrecisionRoundingUnsorted(es) ==
    LET kept == SelectSeq(es, LAMBDA entry : entry.endTime # NULL)
    IN  [i \in 1 .. Len(kept) |-> RoundEntry(kept[i])]

applyPrecisionRounding(es) ==
    LET kept == SelectSeq(es, LAMBDA entry : entry.endTime # NULL)
    IN  SortByStart([i \in 1 .. Len(kept) |-> RoundEntry(kept[i])])

\* ShouldPostpone without the comparison of the customers
ShouldPostponeAnyCustomer(previous, current) ==
    getOverlapMs(previous.startTime, previous.endTime,
                 current.startTime, current.endTime) = ROUNDING_INTERVAL_MINUTES

\* ShouldPostpone without the test for null: null equals null
ShouldPostponeNullEqual(previous, current) ==
    LET overlapMs == getOverlapMs(previous.startTime, previous.endTime,
                                  current.startTime, current.endTime)
        currentCustomer  == getCustomerId(current.phaseId)
        previousCustomer == getCustomerId(previous.phaseId)
    IN  /\ overlapMs = ROUNDING_INTERVAL_MINUTES
        /\ currentCustomer = previousCustomer

\* ShouldPostpone for every overlap of one rounding interval or more
ShouldPostponeAtLeast(previous, current) ==
    LET overlapMs == getOverlapMs(previous.startTime, previous.endTime,
                                  current.startTime, current.endTime)
        currentCustomer  == getCustomerId(current.phaseId)
        previousCustomer == getCustomerId(previous.phaseId)
    IN  /\ overlapMs >= ROUNDING_INTERVAL_MINUTES
        /\ currentCustomer = previousCustomer
        /\ currentCustomer # NULL

\* lines 128-133: the overlap is exactly one rounding interval and both
\* entries resolve to the same customer, which is not null
ShouldPostpone(previous, current) ==
    LET overlapMs == getOverlapMs(previous.startTime, previous.endTime,
                                  current.startTime, current.endTime)
        currentCustomer  == getCustomerId(current.phaseId)
        previousCustomer == getCustomerId(previous.phaseId)
    IN  /\ overlapMs = ROUNDING_INTERVAL_MINUTES
        /\ currentCustomer = previousCustomer
        /\ currentCustomer # NULL

\* the inner loop of handlePrecisionOverlapping from index j on: `current` is
\* checked against result[j], result[j+1], ... and each check sees the start
\* the checks before it have left.  The `continue` of line 140 is the last
\* statement of the inner loop's body: whether current.startTime >= endTime
\* or not, the loop goes on with j + 1 and the entry is pushed after it.
RECURSIVE PostponeAgainst(_, _, _)
PostponeAgainst(current, result, j) ==
    IF j > Len(result) THEN current
    ELSE PostponeAgainst(
            IF ShouldPostpone(result[j], current)
            THEN [current EXCEPT !.startTime = @ + ROUNDING_INTERVAL_MINUTES]
            ELSE current,
            result, j + 1)

\* the outer loop of handlePrecisionOverlapping from index i on
RECURSIVE PrecisionLoop(_, _, _)
PrecisionLoop(sorted, i, result) ==
    IF i > Len(sorted) THEN result
    ELSE PrecisionLoop(sorted, i + 1,
                       Append(result, PostponeAgainst(sorted[i], result, 1)))

handlePrecisionOverlapping(es) == PrecisionLoop(SortByStart(es), 1, <<>>)

\* lines 165-171: does current overlap an entry already in result
IsOverlapping(result, current) ==
    \E j \in 1 .. Len(result) :
        rangesOverlap(result[j].startTime, result[j].endTime,
                      current.startTime, current.endTime)

\* MarkOvertime that also cuts the overlapping entry down to nothing
MarkOvertimeClipped(current) ==
    [current EXCEPT !.source = "inside-rounded-overlapping", !.startTime = current.endTime]

\* lines 173-175: the copy of the entry, marked as overtime
MarkOvertime(current) == [current EXCEPT !.source = "inside-rounded-overlapping"]

\* the loop of handleOverlapping from index i on
RECURSIVE OverlapLoop(_, _, _)
OverlapLoop(sorted, i, result) ==
    IF i > Len(sorted) THEN result
    ELSE OverlapLoop(sorted, i + 1,
            Append(result,
                   IF IsOverlapping(result, sorted[i])
                   THEN MarkOvertime(sorted[i])
                   ELSE sorted[i]))

\* handleOverlapping that walks the entries in the order Phase A left them
handleOverlappingUnsorted(es) == OverlapLoop(es, 1, <<>>)

\* line 158: the copy of the entries is sorted by start before the loop
handleOverlapping(es) == OverlapLoop(SortByStart(es), 1, <<>>)

applyHoursBalanceRounding(es) ==
    handleOverlapping(handlePrecisionOverlapping(applyPrecisionRounding(es)))

-----------------------------------------------------------------------------
(* The minimum-billing module                                              *)

\* BlockLoop with `<` in the place of `<=`: back-to-back entries do not merge
RECURSIVE BlockLoopApart(_, _, _, _)
BlockLoopApart(sorted, i, blocks, currentBlock) ==
    IF i > Len(sorted) THEN Append(blocks, currentBlock)
    ELSE
        LET entry == sorted[i]
        IN  IF entry.startTime < currentBlock.endTime
            THEN BlockLoopApart(sorted, i + 1, blocks,
                    [currentBlock EXCEPT
                        !.endTime = IF entry.endTime > @ THEN entry.endTime ELSE @,
                        !.entries = Append(@, entry)])
            ELSE BlockLoopApart(sorted, i + 1, Append(blocks, currentBlock),
                    [ phaseId   |-> entry.phaseId,
                      startTime |-> entry.startTime,
                      endTime   |-> entry.endTime,
                      entries   |-> <<entry>> ])

\* BlockLoop that takes the end of the entry last added for the block's end
RECURSIVE BlockLoopLastEnd(_, _, _, _)
BlockLoopLastEnd(sorted, i, blocks, currentBlock) ==
    IF i > Len(sorted) THEN Append(blocks, currentBlock)
    ELSE
        LET entry == sorted[i]
        IN  IF entry.startTime <= currentBlock.endTime
            THEN BlockLoopLastEnd(sorted, i + 1, blocks,
                    [currentBlock EXCEPT
                        !.endTime = entry.endTime,
                        !.entries = Append(@, entry)])
            ELSE BlockLoopLastEnd(sorted, i + 1, Append(blocks, currentBlock),
                    [ phaseId   |-> entry.phaseId,
                      startTime |-> entry.startTime,
                      endTime   |-> entry.endTime,
                      entries   |-> <<entry>> ])

\* the loop of combineIntoBlocks from index i on, currentBlock being the
\* running block
RECURSIVE BlockLoop(_, _, _, _)
BlockLoop(sorted, i, blocks, currentBlock) ==
    IF i > Len(sorted) THEN Append(blocks, currentBlock)
    ELSE
        LET entry == sorted[i]
        IN  IF entry.startTime <= currentBlock.endTime
            THEN BlockLoop(sorted, i + 1, blocks,
                    [currentBlock EXCEPT
                        !.endTime = IF entry.endTime > @ THEN entry.endTime ELSE @,
                        !.entries = Append(@, entry)])
            ELSE BlockLoop(sorted, i + 1, Append(blocks, currentBlock),
                    [ phaseId   |-> entry.phaseId,
                      startTime |-> entry.startTime,
                      endTime   |-> entry.endTime,
                      entries   |-> <<entry>> ])

combineIntoBlocks(es) ==
    IF Len(es) = 0 THEN <<>>
    ELSE
        LET sorted == SortByStart(es)
        IN  BlockLoop(sorted, 2, <<>>,
                [ phaseId   |-> sorted[1].phaseId,
                  startTime |-> sorted[1].startTime,
                  endTime   |-> sorted[1].endTime,
                  entries   |-> <<sorted[1]>> ])

getBlockDurationMinutes(block) == block.endTime - block.startTime

\* setHours(23, 55, 0, 0) on a copy of the date: 23:55 of the same local day
getEndOfDayLimit(date) ==
    (date \div MinutesPerDay) * MinutesPerDay + END_OF_DAY_LIMIT_MINUTES

\* The caller's third lookup, as the claims about padding assume it: the
\* earliest start at or after afterTime among the run's entries whose ids are
\* not excluded, or null
getNextEntryStart(known, afterTime, excludeEntryIds) ==
    LET starts == { known[i].startTime : i \in
                      { k \in 1 .. Len(known) :
                          /\ known[k].hourEntryId \notin excludeEntryIds
                          /\ known[k].startTime >= afterTime } }
    IN  IF starts = {} THEN NULL
        ELSE CHOOSE t \in starts : \A u \in starts : t <= u

\* does the first loop of applyMinimumBilling put the entry into a case group
HasMinimum(entry) ==
    LET config == getCaseConfig(entry.phaseId)
    IN  config # NoConfig /\ config[1].minBillableTimeInMin > 0

\* the keys of entriesByCase in insertion order: a Map iterates its keys in
\* the order they were first set
RECURSIVE CaseOrder(_, _, _)
CaseOrder(es, i, seen) ==
    IF i > Len(es) THEN seen
    ELSE
        LET caseId == getCaseConfig(es[i].phaseId)[1].caseId
        IN  IF HasMinimum(es[i]) /\ \A k \in 1 .. Len(seen) : seen[k] # caseId
            THEN CaseOrder(es, i + 1, Append(seen, caseId))
            ELSE CaseOrder(es, i + 1, seen)

\* EntriesOfCase that also puts the entries without case configuration into
\* every case's group
EntriesOfCaseAndUnconfigured(es, caseId) ==
    SelectSeq(es, LAMBDA entry :
        \/ getCaseConfig(entry.phaseId) = NoConfig
        \/ HasMinimum(entry) /\ getCaseConfig(entry.phaseId)[1].caseId = caseId)

\* entriesByCase.get(caseId)
EntriesOfCase(es, caseId) ==
    SelectSeq(es, LAMBDA entry :
        HasMinimum(entry) /\ getCaseConfig(entry.phaseId)[1].caseId = caseId)

\* ClampToEndOfDay that does not constrain
ClampToEndOfDayNever(desiredEnd, endOfDayLimit) == desiredEnd

\* lines 140-142: constrain by end of day
ClampToEndOfDay(desiredEnd, endOfDayLimit) ==
    IF desiredEnd > endOfDayLimit THEN endOfDayLimit ELSE desiredEnd

\* ClampToNextStart that does not constrain
ClampToNextStartNever(desiredEnd, nextStart) == desiredEnd

\* ClampToNextStart with the comparison turned around
ClampToNextStartInverted(desiredEnd, nextStart) ==
    IF nextStart # NULL /\ desiredEnd < nextStart THEN nextStart ELSE desiredEnd

\* lines 145-147: constrain by next entry start
ClampToNextStart(desiredEnd, nextStart) ==
    IF nextStart # NULL /\ desiredEnd > nextStart THEN nextStart ELSE desiredEnd

\* PaddingEnd that adds the whole minimum, not the shortfall, to the block end
PaddingEndWholeMinimum(block, minMinutes, known) ==
    LET paddingStart  == block.endTime
        excludeIds    == { block.entries[i].hourEntryId : i \in 1 .. Len(block.entries) }
        nextStart     == getNextEntryStart(known, paddingStart, excludeIds)
    IN  ClampToNextStart(
            ClampToEndOfDay(paddingStart + minMinutes, getEndOfDayLimit(paddingStart)),
            nextStart)

\* lines 137-147: where the padding of a block ends
PaddingEnd(block, minMinutes, known) ==
    LET neededPadding == minMinutes - getBlockDurationMinutes(block)
        paddingStart  == block.endTime
        excludeIds    == { block.entries[i].hourEntryId : i \in 1 .. Len(block.entries) }
        nextStart     == getNextEntryStart(known, paddingStart, excludeIds)
    IN  ClampToNextStart(
            ClampToEndOfDay(paddingStart + neededPadding, getEndOfDayLimit(paddingStart)),
            nextStart)

\* PaddingOfBlock that refers to the last entry of the block
PaddingOfBlockLastEntry(block, minMinutes, known) ==
    LET paddingStart   == block.endTime
        desiredEnd     == PaddingEnd(block, minMinutes, known)
        referenceEntry == block.entries[Len(block.entries)]
    IN  IF getBlockDurationMinutes(block) >= minMinutes THEN <<>>
        ELSE IF desiredEnd > paddingStart
        THEN << [ hourEntryId         |-> referenceEntry.hourEntryId,
                  phaseId             |-> referenceEntry.phaseId,
                  worktypeId          |-> referenceEntry.worktypeId,
                  startTime           |-> paddingStart,
                  endTime             |-> desiredEnd,
                  source              |-> "inside-minimum-billable-time",
                  originalHourEntryId |-> referenceEntry.hourEntryId ] >>
        ELSE <<>>

\* PaddingOfBlock without the test for a positive duration
PaddingOfBlockAnyDuration(block, minMinutes, known) ==
    LET paddingStart   == block.endTime
        desiredEnd     == PaddingEnd(block, minMinutes, known)
        referenceEntry == block.entries[1]
    IN  IF getBlockDurationMinutes(block) >= minMinutes THEN <<>>
        ELSE << [ hourEntryId         |-> referenceEntry.hourEntryId,
                  phaseId             |-> referenceEntry.phaseId,
                  worktypeId          |-> referenceEntry.worktypeId,
                  startTime           |-> paddingStart,
                  endTime             |-> desiredEnd,
                  source              |-> "inside-minimum-billable-time",
                  originalHourEntryId |-> referenceEntry.hourEntryId ] >>

\* the body of the loop over a case's blocks: the padding records (none or
\* one) of one block
PaddingOfBlock(block, minMinutes, known) ==
    LET paddingStart   == block.endTime
        desiredEnd     == PaddingEnd(block, minMinutes, known)
        referenceEntry == block.entries[1]
    IN  IF getBlockDurationMinutes(block) >= minMinutes THEN <<>>
        ELSE IF desiredEnd > paddingStart
        THEN << [ hourEntryId         |-> referenceEntry.hourEntryId,
                  phaseId             |-> referenceEntry.phaseId,
                  worktypeId          |-> referenceEntry.worktypeId,
                  startTime           |-> paddingStart,
                  endTime             |-> desiredEnd,
                  source              |-> "inside-minimum-billable-time",
                  originalHourEntryId |-> referenceEntry.hourEntryId ] >>
        ELSE <<>>

RECURSIVE PaddingOfBlocks(_, _, _, _)
PaddingOfBlocks(blocks, i, minMinutes, known) ==
    IF i > Len(blocks) THEN <<>>
    ELSE PaddingOfBlock(blocks[i], minMinutes, known)
            \o PaddingOfBlocks(blocks, i + 1, minMinutes, known)

\* the loop over entriesByCase from the i-th case on
RECURSIVE PaddingOfCases(_, _, _, _)
PaddingOfCases(es, order, i, known) ==
    IF i > Len(order) THEN <<>>
    ELSE
        LET caseEntries == EntriesOfCase(es, order[i])
            config      == getCaseConfig(caseEntries[1].phaseId)
        IN  (IF config = NoConfig THEN <<>>
             ELSE PaddingOfBlocks(combineIntoBlocks(caseEntries), 1,
                                  config[1].minBillableTimeInMin, known))
            \o PaddingOfCases(es, order, i + 1, known)

\* the run's lookup for the next entry start knows the entries passed in
applyMinimumBilling(es) ==
    SortByStart(PaddingOfCases(es, CaseOrder(es, 1, <<>>), 1, es))

\* a padding record as the merge widens it to the shape of a RoundedEntry
WidenPadding(e) ==
    [ hourEntryId         |-> e.hourEntryId,
      phaseId             |-> e.phaseId,
      worktypeId          |-> e.worktypeId,
      startTime           |-> e.startTime,
      endTime             |-> e.endTime,
      source              |-> e.source,
      originalHourEntryId |-> e.originalHourEntryId,
      originalStartTime   |-> e.startTime,
      originalEndTime     |-> e.endTime,
      startRounded        |-> FALSE,
      endRounded          |-> FALSE ]

\* mergeWithRoundedEntries without the sort of line 188
mergeWithRoundedEntriesUnsorted(roundedEntries, minBillingEntries) ==
    roundedEntries
        \o [i \in 1 .. Len(minBillingEntries) |-> WidenPadding(minBillingEntries[i])]

mergeWithRoundedEntries(roundedEntries, minBillingEntries) ==
    SortByStart(roundedEntries
        \o [i \in 1 .. Len(minBillingEntries) |-> WidenPadding(minBillingEntries[i])])

-----------------------------------------------------------------------------
(* The run                                                                 *)

\* a raw entry as validateStartEnd admits it: end after start, or no end yet
RawEntry(id, phaseId, startTime, endTime) ==
    [ id |-> id, phaseId |-> phaseId, worktypeId |-> 10 + id,
      startTime |-> startTime, endTime |-> endTime ]

\* a raw interval of the window: it starts two minutes after a grid line and
\* ends two minutes before a later one, so that rounding moves both ends
RawChoices ==
    { <<c[1], c[2] + 2, c[3] - 2>> : c \in
        { d \in PhaseIds \X GridLines \X GridLines : d[2] < d[3] } }

\* the caller hands the entries over in the order of their start times (ties
\* in any order)
Init ==
    /\ \E n \in 1 .. MaxEntries :
         \E c \in [1 .. n -> RawChoices] :
            /\ \A i \in 1 .. n - 1 : c[i][2] <= c[i + 1][2]
            /\ entries = [i \in 1 .. n |-> RawEntry(i, c[i][1], c[i][2], c[i][3])]
    /\ pc = "input"
    /\ rounded = <<>>
    /\ precise = <<>>
    /\ resolved = <<>>
    /\ padding = <<>>
    /\ merged = <<>>
    /\ store = <<>>
    /\ updating = NoCall
    /\ deleting = NoCall
    /\ confirming = NoCall
    /\ thrown = NoError

\* a raw entry of the rounding runs: any minutes, any order, with or without
\* an end, with or without a phase
RoundChoices ==
    { c \in {NULL, 1} \X RoundTimes \X (RoundTimes \cup {NULL}) :
        c[3] = NULL \/ c[2] < c[3] }

InitRound ==
    /\ \E n \in 1 .. MaxRoundEntries :
         \E c \in [1 .. n -> RoundChoices] :
            entries = [i \in 1 .. n |-> RawEntry(i, c[i][1], c[i][2], c[i][3])]
    /\ pc = "input"
    /\ rounded = <<>>
    /\ precise = <<>>
    /\ resolved = <<>>
    /\ padding = <<>>
    /\ merged = <<>>
    /\ store = <<>>
    /\ updating = NoCall
    /\ deleting = NoCall
    /\ confirming = NoCall
    /\ thrown = NoError

\* a raw interval of the window as in RawChoices, of a phase or of none
LookupChoices ==
    { <<c[1], c[2] + 2, c[3] - 2>> : c \in
        { d \in LookupPhaseIds \X GridLines \X GridLines : d[2] < d[3] } }

InitLookup ==
    /\ \E n \in 1 .. MaxLookupEntries :
         \E c \in [1 .. n -> LookupChoices] :
            entries = [i \in 1 .. n |-> RawEntry(i, c[i][1], c[i][2], c[i][3])]
    /\ pc = "input"
    /\ rounded = <<>>
    /\ precise = <<>>
    /\ resolved = <<>>
    /\ padding = <<>>
    /\ merged = <<>>
    /\ store = <<>>
    /\ updating = NoCall
    /\ deleting = NoCall
    /\ confirming = NoCall
    /\ thrown = NoError

Round ==
    /\ pc = "input"
    /\ rounded' = applyPrecisionRounding(entries)
    /\ pc' = "rounded"
    /\ UNCHANGED <<entries, precise, resolved, padding, merged, store,
                   updating, deleting, confirming, thrown>>

PrecisionOverlap ==
    /\ pc = "rounded"
    /\ precise' = handlePrecisionOverlapping(rounded)
    /\ pc' = "precise"
    /\ UNCHANGED <<entries, rounded, resolved, padding, merged, store,
                   updating, deleting, confirming, thrown>>

Overlap ==
    /\ pc = "precise"
    /\ resolved' = handleOverlapping(precise)
    /\ pc' = "resolved"
    /\ UNCHANGED <<entries, rounded, precise, padding, merged, store,
                   updating, deleting, confirming, thrown>>

MinimumBilling ==
    /\ pc = "resolved"
    /\ padding' = applyMinimumBilling(resolved)
    /\ pc' = "padded"
    /\ UNCHANGED <<entries, rounded, precise, resolved, merged, store,
                   updating, deleting, confirming, thrown>>

Merge ==
    /\ pc = "padded"
    /\ merged' = mergeWithRoundedEntries(resolved, padding)
    /\ pc' = "merged"
    /\ UNCHANGED <<entries, rounded, precise, resolved, padding, store,
                   updating, deleting, confirming, thrown>>

Next == Round \/ PrecisionOverlap \/ Overlap \/ MinimumBilling \/ Merge

Spec == Init /\ [][Next]_vars

\* the runs that exercise the rounding of arbitrary minutes
SpecRound == InitRound /\ [][Next]_vars

\* the runs in which a lookup may answer null
SpecLookup == InitLookup /\ [][Next]_vars

-----------------------------------------------------------------------------
(* hour-entries.ts.  A validation is TRUE when it returns and FALSE when   *)
(* it throws.  Times are minutes of local time (toZonedTime with a fixed   *)
(* offset), so the local date of a time is its day number and its hours    *)
(* and minutes are its minutes since local midnight.  Of an entry's fields *)
(* the model keeps the owner, the times, the description, the source, the  *)
(* status, deletedAt and whether an update has set updatedAt; issue code,  *)
(* phase and worktype are copied as the description is, confirmDay checks  *)
(* phase and worktype as it checks the description, and validatePhase and  *)
(* validateWorktype can only reject a request before anything is written.  *)
(* A call that throws is a step that changes nothing but `thrown`; a       *)
(* handler that reads the table and writes it later is one step up to its  *)
(* last read and one step per write.                                       *)

\* the three kinds of runs against the table: "store" with requests of two
\* users around the end of a day, "serial" with requests of two users on
\* two days, no call starting while another is between its database steps,
\* and "days" with requests of one user on one day, every step of every
\* call free to come next
StoreRun == pc \in {"store", "days", "serial"}

NoCallInFlight == updating = NoCall /\ deleting = NoCall /\ confirming = NoCall

\* a call may start
MayStart == StoreRun /\ (pc = "serial" => NoCallInFlight)

RequestTimes ==
    CASE pc = "store"  -> StoreTimes
      [] pc = "serial" -> DayTimes
      [] OTHER         -> { t \in DayTimes : t \div MinutesPerDay = 1 }

RequestUsers == IF pc = "days" THEN {1} ELSE UserIds

\* what a run keeps of the error a call threw: the serial runs keep its code,
\* the others nothing, a call that throws being a step that changes nothing
Thrown(error) == IF pc = "serial" THEN error ELSE NoError

\* the descriptions a createHourEntry request may carry
RequestDescriptions == IF pc = "store" THEN {NULL} ELSE {NULL, Text}

\* the descriptions an updateHourEntry request may carry
UpdateDescriptions == IF pc = "store" THEN {UNDEFINED} ELSE {UNDEFINED, NULL, Text}

\* format(toZonedTime(time), "yyyy-MM-dd")
LocalDate(time) == time \div MinutesPerDay

\* hours === 23 && minutes >= 55 throws UNSUPPORTED_TIME
validateTimeRange(time) == ~(time % MinutesPerDay >= END_OF_DAY_LIMIT_MINUTES)

validateStartEnd(startTime, endTime) ==
    \/ endTime = NULL \/ endTime = UNDEFINED
    \/ /\ ~(endTime <= startTime)
       /\ ~(LocalDate(startTime) # LocalDate(endTime))

isDayLocked(rows, userId, date) ==
    \E i \in 1 .. Len(rows) :
        /\ rows[i].userId = userId
        /\ LocalDate(rows[i].startTime) = LocalDate(date)
        /\ rows[i].status = "confirmed"
        /\ rows[i].deletedAt = NULL

\* what the validation of a start and an end throws, if anything
TimesError(startTime, endTime) ==
    IF ~validateTimeRange(startTime) THEN "UNSUPPORTED_TIME"
    ELSE IF endTime # NULL /\ endTime # UNDEFINED /\ ~validateTimeRange(endTime)
    THEN "UNSUPPORTED_TIME"
    ELSE IF ~validateStartEnd(startTime, endTime) THEN "INVALID_TIME_RANGE"
    ELSE NoError

\* what createHourEntry throws before its insert, if anything
CreateError(userId, input) ==
    IF TimesError(input.startTime, input.endTime) # NoError
    THEN TimesError(input.startTime, input.endTime)
    ELSE IF isDayLocked(store, userId, input.startTime) THEN "DAY_LOCKED"
    ELSE NoError

createHourEntry ==
    /\ MayStart
    /\ Len(store) < MaxStored
    /\ \E userId \in RequestUsers :
         \E input \in [ startTime   : RequestTimes,
                        endTime     : RequestTimes \cup {NULL, UNDEFINED},
                        description : RequestDescriptions ] :
            /\ thrown' = Thrown(CreateError(userId, input))
            /\ store' =
                 IF CreateError(userId, input) # NoError THEN store
                 ELSE Append(store,
                    [ id          |-> Len(store) + 1,
                      userId      |-> userId,
                      startTime   |-> input.startTime,
                      endTime     |-> IF input.endTime = UNDEFINED THEN NULL ELSE input.endTime,
                      description |-> input.description,
                      source      |-> "inside",
                      status      |-> "draft",
                      deletedAt   |-> NULL,
                      updatedAt   |-> "created" ])
    /\ UNCHANGED <<entries, pc, rounded, precise, resolved, padding, merged,
                   updating, deleting, confirming>>

\* line 267: input.startTime ?? existing.startTime
newStartTime(input, existing) ==
    IF input.startTime # UNDEFINED THEN input.startTime ELSE existing.startTime

\* newEndTime that takes the end of the request alone
newEndTimeOfInput(input, existing) ==
    IF input.endTime # UNDEFINED THEN input.endTime ELSE NULL

\* line 268: input.endTime !== undefined ? input.endTime : existing.endTime
newEndTime(input, existing) ==
    IF input.endTime # UNDEFINED THEN input.endTime ELSE existing.endTime

\* the row the select of updateHourEntry and deleteHourEntry finds: the one
\* with the id, unless it is deleted
Existing(entryId) ==
    IF entryId \in 1 .. Len(store) /\ store[entryId].deletedAt = NULL
    THEN << store[entryId] >>
    ELSE <<>>

\* what updateHourEntry and deleteHourEntry throw on the row they selected
OwnDraftError(userId, found) ==
    IF found = <<>> THEN "ENTRY_NOT_FOUND"
    ELSE IF found[1].userId # userId THEN "NOT_OWNER"
    ELSE IF found[1].status # "draft" THEN "NOT_DRAFT"
    ELSE NoError

\* what updateHourEntry throws before its update statement, if anything
UpdateError(userId, input, found) ==
    IF OwnDraftError(userId, found) # NoError THEN OwnDraftError(userId, found)
    ELSE TimesError(newStartTime(input, found[1]), newEndTime(input, found[1]))

\* updateHourEntry up to its update statement: it selects the row and checks
\* the request against it; the values of the update statement are those of
\* the request, with the values of the selected row where it names none
updateHourEntrySelect ==
    /\ MayStart
    /\ updating = NoCall
    /\ \E userId \in RequestUsers, entryId \in 1 .. MaxStored :
         \E input \in [ startTime   : RequestTimes \cup {UNDEFINED},
                        endTime     : RequestTimes \cup {NULL, UNDEFINED},
                        description : UpdateDescriptions ] :
            LET found == Existing(entryId)
                error == UpdateError(userId, input, found)
            IN  /\ thrown' = Thrown(error)
                /\ updating' =
                     IF error # NoError THEN NoCall
                     ELSE << [ entryId     |-> entryId,
                               startTime   |-> IF input.startTime # UNDEFINED
                                               THEN input.startTime
                                               ELSE found[1].startTime,
                               endTime     |-> IF input.endTime # UNDEFINED
                                               THEN input.endTime
                                               ELSE found[1].endTime,
                               description |-> IF input.description # UNDEFINED
                                               THEN input.description
                                               ELSE found[1].description ] >>
    /\ UNCHANGED <<entries, pc, rounded, precise, resolved, padding, merged,
                   store, deleting, confirming>>

\* the update statement of updateHourEntry: lines 284-296
updateHourEntrySet ==
    /\ StoreRun
    /\ updating # NoCall
    /\ LET call == updating[1]
       IN  store' = [store EXCEPT ![call.entryId] =
                [@ EXCEPT !.startTime   = call.startTime,
                          !.endTime     = call.endTime,
                          !.description = call.description,
                          !.updatedAt   = "updated"]]
    /\ updating' = NoCall
    /\ thrown' = NoError
    /\ UNCHANGED <<entries, pc, rounded, precise, resolved, padding, merged,
                   deleting, confirming>>

\* deleteHourEntry up to its update statement
deleteHourEntrySelect ==
    /\ MayStart
    /\ deleting = NoCall
    /\ \E userId \in RequestUsers, entryId \in 1 .. MaxStored :
         LET error == OwnDraftError(userId, Existing(entryId))
         IN  /\ thrown' = Thrown(error)
             /\ deleting' = IF error # NoError THEN NoCall
                            ELSE << [ entryId |-> entryId ] >>
    /\ UNCHANGED <<entries, pc, rounded, precise, resolved, padding, merged,
                   store, updating, confirming>>

\* the update statement of deleteHourEntry: lines 323-329
deleteHourEntrySet ==
    /\ StoreRun
    /\ deleting # NoCall
    /\ store' = [store EXCEPT ![deleting[1].entryId] =
                    [@ EXCEPT !.deletedAt = Now, !.updatedAt = "updated"]]
    /\ deleting' = NoCall
    /\ thrown' = NoError
    /\ UNCHANGED <<entries, pc, rounded, precise, resolved, padding, merged,
                   updating, confirming>>

\* the rows the select of confirmDay finds: lines 468-480
DraftsOfDay(rows, userId, date) ==
    { i \in 1 .. Len(rows) :
        /\ rows[i].userId = userId
        /\ LocalDate(rows[i].startTime) = LocalDate(date)
        /\ rows[i].status = "draft"
        /\ rows[i].source = "inside"
        /\ rows[i].deletedAt = NULL }

\* what the validation loop of confirmDay throws on one entry, if anything
EntryError(row) ==
    IF row.description = NULL THEN "MISSING_REQUIRED_FIELD"
    ELSE IF row.endTime = NULL THEN "MISSING_END_TIME"
    ELSE NoError

\* the smallest of a non-empty set of ids
Lowest(ids) == CHOOSE i \in ids : \A j \in ids : i <= j

\* ConfirmErrors whose validation loop stops after its first entry
ConfirmErrorsFirstOnly(rows, ids) ==
    IF ids = {} THEN {"NO_ENTRIES_FOR_DAY"}
    ELSE { EntryError(rows[Lowest(ids)]) }

\* what confirmDay may throw before its first update, NoError if nothing:
\* the select has no ORDER BY, so the loop meets the entries in any order
\* and throws on the first one that lacks a field
ConfirmErrors(rows, ids) ==
    IF ids = {} THEN {"NO_ENTRIES_FOR_DAY"}
    ELSE IF \E i \in ids : EntryError(rows[i]) # NoError
    THEN { EntryError(rows[i]) : i \in { j \in ids : EntryError(rows[j]) # NoError } }
    ELSE {NoError}

\* confirmDay up to its first update statement
confirmDaySelect ==
    /\ MayStart
    /\ confirming = NoCall
    /\ \E userId \in RequestUsers, date \in RequestTimes :
         LET draftEntries == DraftsOfDay(store, userId, date)
         IN  \E error \in ConfirmErrors(store, draftEntries) :
                /\ thrown' = Thrown(error)
                /\ confirming' =
                     IF error # NoError THEN NoCall
                     ELSE << [ draftEntries |-> draftEntries,
                               remaining    |-> draftEntries ] >>
    /\ UNCHANGED <<entries, pc, rounded, precise, resolved, padding, merged,
                   store, updating, deleting>>

\* one update statement of the last loop of confirmDay: lines 519-527
confirmDaySet ==
    /\ StoreRun
    /\ confirming # NoCall
    /\ \E id \in confirming[1].remaining :
         /\ store' = [store EXCEPT ![id] =
                 [@ EXCEPT !.status = "confirmed", !.updatedAt = "updated"]]
         /\ confirming' =
              IF confirming[1].remaining = {id} THEN NoCall
              ELSE << [confirming[1] EXCEPT !.remaining = @ \ {id}] >>
    /\ thrown' = NoError
    /\ UNCHANGED <<entries, pc, rounded, precise, resolved, padding, merged,
                   updating, deleting>>

InitStore ==
    /\ entries = <<>>
    /\ pc = "store"
    /\ rounded = <<>>
    /\ precise = <<>>
    /\ resolved = <<>>
    /\ padding = <<>>
    /\ merged = <<>>
    /\ store = <<>>
    /\ updating = NoCall
    /\ deleting = NoCall
    /\ confirming = NoCall
    /\ thrown = NoError

\* requests that overlap in time: every step of every call may come next
InitDay ==
    /\ entries = <<>>
    /\ pc = "days"
    /\ rounded = <<>>
    /\ precise = <<>>
    /\ resolved = <<>>
    /\ padding = <<>>
    /\ merged = <<>>
    /\ store = <<>>
    /\ updating = NoCall
    /\ deleting = NoCall
    /\ confirming = NoCall
    /\ thrown = NoError

\* requests one after the other
InitSerial ==
    /\ entries = <<>>
    /\ pc = "serial"
    /\ rounded = <<>>
    /\ precise = <<>>
    /\ resolved = <<>>
    /\ padding = <<>>
    /\ merged = <<>>
    /\ store = <<>>
    /\ updating = NoCall
    /\ deleting = NoCall
    /\ confirming = NoCall
    /\ thrown = NoError

NextStore ==
    \/ createHourEntry
    \/ updateHourEntrySelect
    \/ updateHourEntrySet

NextDay ==
    \/ createHourEntry
    \/ updateHourEntrySelect
    \/ updateHourEntrySet
    \/ deleteHourEntrySelect
    \/ deleteHourEntrySet
    \/ confirmDaySelect
    \/ confirmDaySet

SpecStore == InitStore /\ [][NextStore]_vars

SpecDay == InitDay /\ [][NextDay]_vars

SpecSerial == InitSerial /\ [][NextDay]_vars

-----------------------------------------------------------------------------
(* Vocabulary of the properties.  A result, once computed, is left alone   *)
(* by the later steps of the run (they are UNCHANGED there), so a property *)
(* of a step's result is stated for the state right after the step.        *)

\* the minutes [t, t+1) that at least one interval of the sequence covers
Covered(seq) ==
    UNION { seq[i].startTime .. seq[i].endTime - 1 : i \in 1 .. Len(seq) }

CaseOf(phaseId) ==
    IF getCaseConfig(phaseId) = NoConfig THEN NULL ELSE getCaseConfig(phaseId)[1].caseId

CaseIds == { CaseOf(p) : p \in PhaseIds }

CustomerIds == { getCustomerId(p) : p \in PhaseIds }

RawOfCase(c) ==
    SelectSeq(entries, LAMBDA e : e.endTime # NULL /\ CaseOf(e.phaseId) = c)

RawOfCustomer(c) ==
    SelectSeq(entries, LAMBDA e : e.endTime # NULL /\ getCustomerId(e.phaseId) = c)

MergedOfCase(c) == SelectSeq(merged, LAMBDA r : CaseOf(r.phaseId) = c)

MergedOfCustomer(c) == SelectSeq(merged, LAMBDA r : getCustomerId(r.phaseId) = c)

Postponed(r) == r.startTime # roundDown(r.originalStartTime, ROUNDING_INTERVAL_MINUTES)

-----------------------------------------------------------------------------
(* C1 *)

\* C1 as the specification states it: per case (the window is one day), the
\* time covered by the merged output records of the case is at least the time
\* covered by the case's raw entries.
C1_NoTimeLossPerCase ==
    pc = "merged" =>
        \A c \in CaseIds :
            Cardinality(Covered(MergedOfCase(c))) >= Cardinality(Covered(RawOfCase(c)))

\* C1, amended: per customer, the time covered by the merged output records of
\* the customer's entries is at least the time covered by the customer's raw
\* entries; indeed every raw minute of the customer is an output minute of it.
C1_NoTimeLossPerCustomer ==
    pc = "merged" =>
        \A c \in CustomerIds :
            LET raw == Covered(RawOfCustomer(c))
                out == Covered(MergedOfCustomer(c))
            IN  raw \subseteq out /\ Cardinality(out) >= Cardinality(raw)

\* C1 witness: the run is over and Phase A has postponed an entry of a
\* customer whose raw entries it was checked against.
C1_Witness ==
    /\ pc = "merged"
    /\ \E i \in 1 .. Len(resolved) :
          /\ Postponed(resolved[i])
          /\ resolved[i].startTime < resolved[i].endTime

-----------------------------------------------------------------------------
(* C2 *)

\* C2: every record that handlePrecisionOverlapping, and so
\* applyHoursBalanceRounding, puts out has start < end: an entry postponed to
\* or past its end is dropped.
C2_PositiveDuration ==
    /\ pc = "precise" =>
          \A i \in 1 .. Len(precise) : precise[i].startTime < precise[i].endTime
    /\ pc = "resolved" =>
          \A i \in 1 .. Len(resolved) : resolved[i].startTime < resolved[i].endTime

-----------------------------------------------------------------------------
(* C3 *)

\* C3 as the specification states it: every record of applyHoursBalanceRounding
\* starts at its original start rounded down and ends at its original end
\* rounded up, so it contains the original interval.
C3_Containment ==
    pc = "resolved" =>
        \A i \in 1 .. Len(resolved) :
            LET r == resolved[i]
            IN  /\ r.startTime = (r.originalStartTime \div 5) * 5
                /\ r.startTime <= r.originalStartTime
                /\ r.endTime >= r.originalEndTime
                /\ r.endTime % 5 = 0
                /\ r.endTime - r.originalEndTime < 5

\* C3, amended: every record of applyHoursBalanceRounding ends at its original
\* end rounded up (end >= originalEndTime); its start is on the grid, at or
\* after the original start rounded down; a record Phase A has not postponed
\* starts at the rounded-down original start (start <= originalStartTime), a
\* postponed one starts after its original start.
C3_ContainmentUnlessPostponed ==
    pc = "resolved" =>
        \A i \in 1 .. Len(resolved) :
            LET r  == resolved[i]
                rd == (r.originalStartTime \div 5) * 5
            IN  /\ r.endTime >= r.originalEndTime
                /\ r.endTime % 5 = 0
                /\ r.endTime - r.originalEndTime < 5
                /\ r.startTime % 5 = 0
                /\ r.startTime >= rd
                /\ r.startTime = rd => r.startTime <= r.originalStartTime
                /\ r.startTime # rd => r.startTime > r.originalStartTime

\* C3 witness: the output holds a record that was postponed and one that was
\* not, both rounded at both ends.
C3_Witness ==
    /\ pc = "resolved"
    /\ \E i, j \in 1 .. Len(resolved) :
          /\ Postponed(resolved[i])
          /\ ~Postponed(resolved[j])
          /\ resolved[j].startTime < resolved[j].originalStartTime
          /\ resolved[i].endTime > resolved[i].originalEndTime

-----------------------------------------------------------------------------
(* C8 *)

\* C8: Phase A moves the start of an entry by one rounding interval at most:
\* every record it puts out starts where it started in the input (the original
\* start rounded down) or five minutes later.
C8_PostponedAtMostOnce ==
    pc = "precise" =>
        \A i \in 1 .. Len(precise) :
            \E j \in 1 .. Len(rounded) :
                /\ rounded[j].hourEntryId = precise[i].hourEntryId
                /\ \/ precise[i].startTime = rounded[j].startTime
                   \/ precise[i].startTime = rounded[j].startTime + 5

-----------------------------------------------------------------------------
(* C4 *)

RawWithEnd == SelectSeq(entries, LAMBDA e : e.endTime # NULL)

\* C4: applyPrecisionRounding turns every raw entry with an end into a record
\* that starts at floor(start / 5) * 5, ends at ceil(end / 5) * 5 and carries
\* the raw start and end unchanged; the record's interval contains the raw one.
C4_RoundedOutward ==
    pc = "rounded" =>
        \A k \in 1 .. Len(RawWithEnd) :
            LET e == RawWithEnd[k]
            IN  \E i \in 1 .. Len(rounded) :
                    LET r == rounded[i]
                    IN  /\ r.hourEntryId = e.id
                        /\ r.originalStartTime = e.startTime
                        /\ r.originalEndTime = e.endTime
                        \* floor: the grid line at or before the start
                        /\ r.startTime % 5 = 0
                        /\ r.startTime <= e.startTime
                        /\ e.startTime - r.startTime < 5
                        \* ceil: the grid line at or after the end
                        /\ r.endTime % 5 = 0
                        /\ r.endTime >= e.endTime
                        /\ r.endTime - e.endTime < 5

\* C4 witness: a raw entry off the grid at both ends has been rounded, next
\* to an entry without an end.
C4_Witness ==
    /\ pc = "rounded"
    /\ \E i \in 1 .. Len(rounded) :
          /\ rounded[i].startTime < rounded[i].originalStartTime
          /\ rounded[i].endTime > rounded[i].originalEndTime
    /\ \E k \in 1 .. Len(entries) : entries[k].endTime = NULL

-----------------------------------------------------------------------------
(* C5 *)

\* two intervals share an instant
Intersect(a, b) == a.startTime < b.endTime /\ b.startTime < a.endTime

Overtime(r) == r.source = "inside-rounded-overlapping"

IsPadding(r) == r.source = "inside-minimum-billable-time"

\* C5: in the merged sequence, restricted to one case (the window is one
\* day), two distinct records whose intervals intersect are never both
\* non-overtime records.
C5_NoDoubleClaimPerCase ==
    pc = "merged" =>
        \A c \in CaseIds :
            LET m == MergedOfCase(c)
            IN  \A i, j \in 1 .. Len(m) :
                    (i # j /\ Intersect(m[i], m[j])) => (Overtime(m[i]) \/ Overtime(m[j]))

\* C5 witness: a case ends up with a padding record and with two rounded
\* records that intersect, one of them marked as overtime.
C5_Witness ==
    /\ pc = "merged"
    /\ \E c \in CaseIds :
          LET m == MergedOfCase(c)
          IN  /\ \E i \in 1 .. Len(m) : IsPadding(m[i])
              /\ \E i, j \in 1 .. Len(m) :
                    /\ i # j /\ ~IsPadding(m[i]) /\ ~IsPadding(m[j])
                    /\ Intersect(m[i], m[j])
                    /\ Overtime(m[j]) /\ ~Overtime(m[i])

-----------------------------------------------------------------------------
(* C6 *)

\* C6: every padding record ends no later than 23:55 of the local calendar
\* day it starts on.
C6_PaddingWithinDay ==
    pc = "padded" =>
        \A i \in 1 .. Len(padding) :
            LET p == padding[i]
            IN  \E day \in 0 .. 1 :
                    /\ day * 24 * 60 <= p.startTime
                    /\ p.startTime < (day + 1) * 24 * 60
                    /\ p.endTime <= day * 24 * 60 + 23 * 60 + 55

\* the cases' blocks as applyMinimumBilling forms them from its input
BlocksOfCase(c) == combineIntoBlocks(EntriesOfCase(resolved, c))

MinimumOfCase(c) ==
    LET p == CHOOSE p \in PhaseIds : CaseOf(p) = c
    IN  getCaseConfig(p)[1].minBillableTimeInMin

\* C6 witness: a block ends at 23:50 short of its minimum by more than five
\* minutes, and its padding record runs from 23:50 to 23:55.
C6_Witness ==
    /\ pc = "padded"
    /\ \E c \in CaseIds :
          \E b \in 1 .. Len(BlocksOfCase(c)) :
              LET block == BlocksOfCase(c)[b]
              IN  /\ block.endTime = END_OF_DAY_LIMIT_MINUTES - 5
                  /\ MinimumOfCase(c) - (block.endTime - block.startTime) > 5
                  /\ \E i \in 1 .. Len(padding) :
                        /\ padding[i].startTime = END_OF_DAY_LIMIT_MINUTES - 5
                        /\ padding[i].endTime = END_OF_DAY_LIMIT_MINUTES
                        /\ padding[i].hourEntryId = block.entries[1].hourEntryId

-----------------------------------------------------------------------------
(* C7 *)

BlockIds(block) == { block.entries[i].hourEntryId : i \in 1 .. Len(block.entries) }

\* the padding records emitted for a block: they start at its end and refer
\* to its first entry
PaddingFor(block) ==
    SelectSeq(padding, LAMBDA p :
        p.startTime = block.endTime /\ p.hourEntryId = block.entries[1].hourEntryId)

\* C7: when the lookup for the next entry start after a block's end, the
\* block's own entries excluded, answers T, the block's padding ends at or
\* before T, whatever case the entry starting at T belongs to.
C7_PaddingStopsAtNextStart ==
    pc = "padded" =>
        \A c \in CaseIds :
            \A b \in 1 .. Len(BlocksOfCase(c)) :
                LET block == BlocksOfCase(c)[b]
                    T     == getNextEntryStart(resolved, block.endTime, BlockIds(block))
                    pad   == PaddingFor(block)
                IN  T # NULL => \A i \in 1 .. Len(pad) : pad[i].endTime <= T

\* C7 witness: a block's padding was cut at the start of an entry of another
\* case, before the minimum was reached and before 23:55.
C7_Witness ==
    /\ pc = "padded"
    /\ \E c \in CaseIds :
          \E b \in 1 .. Len(BlocksOfCase(c)) :
              LET block == BlocksOfCase(c)[b]
                  T     == getNextEntryStart(resolved, block.endTime, BlockIds(block))
                  pad   == PaddingFor(block)
              IN  /\ T # NULL
                  /\ T < END_OF_DAY_LIMIT_MINUTES
                  /\ Len(pad) = 1
                  /\ pad[1].endTime = T
                  /\ T - block.startTime < MinimumOfCase(c)
                  /\ \A k \in 1 .. Len(resolved) :
                        resolved[k].startTime = T => CaseOf(resolved[k].phaseId) # c

-----------------------------------------------------------------------------
(* C9 *)

\* C9: handleOverlapping puts its records out in ascending order of start and
\* marks a record as overtime if and only if its interval intersects the
\* interval of a record before it in that order, whatever the customers; every
\* other record stays 'inside-rounded', the first one in particular.
C9_OvertimeIffIntersectsEarlier ==
    pc = "resolved" =>
        /\ \A i, j \in 1 .. Len(resolved) :
              i < j => resolved[i].startTime <= resolved[j].startTime
        /\ \A i \in 1 .. Len(resolved) :
              /\ Overtime(resolved[i])
                    <=> \E j \in 1 .. i - 1 : Intersect(resolved[j], resolved[i])
              /\ ~Overtime(resolved[i]) => resolved[i].source = "inside-rounded"
        /\ Len(resolved) > 0 => ~Overtime(resolved[1])

\* C9 witness: Phase B has marked a record that intersects an earlier record
\* of another customer and has left alone a later record that only touches
\* the record before it.
C9_Witness ==
    /\ pc = "resolved"
    /\ \E i, j \in 1 .. Len(resolved) :
          /\ i < j
          /\ Intersect(resolved[i], resolved[j])
          /\ getCustomerId(resolved[i].phaseId) # getCustomerId(resolved[j].phaseId)
          /\ Overtime(resolved[j])
    /\ \E i, j \in 1 .. Len(resolved) :
          /\ i < j
          /\ resolved[i].endTime = resolved[j].startTime
          /\ ~Overtime(resolved[j])

-----------------------------------------------------------------------------
(* C10 *)

\* every record of `before` is in `after` with, at most, another source tag,
\* and `after` holds nothing else
SameButSource(before, after) ==
    /\ Len(after) = Len(before)
    /\ \A i \in 1 .. Len(before) :
          \E j \in 1 .. Len(after) :
              [after[j] EXCEPT !.source = before[i].source] = before[i]
    /\ \A i, j \in 1 .. Len(after) :
          i # j => after[i].hourEntryId # after[j].hourEntryId

\* C10: the step of handleOverlapping puts out one record per input record
\* with start, end, ids, original times and rounding flags as they were, only
\* the source tag possibly changed, and leaves its input list as it was.
C10_PhaseBLossless ==
    [][(pc = "precise" /\ pc' = "resolved")
          => (precise' = precise /\ SameButSource(precise, resolved'))]_vars

\* C10 witness: Phase B has run on several records and has marked one.
C10_Witness ==
    /\ pc = "resolved"
    /\ Len(precise) >= 2
    /\ \E i \in 1 .. Len(resolved) : Overtime(resolved[i])
    /\ \E i \in 1 .. Len(resolved) : ~Overtime(resolved[i]) /\ Postponed(resolved[i])

-----------------------------------------------------------------------------
(* C11 *)

\* C11: for a block shorter than its case's minimum, the padding runs from
\* the block's end to the least of block end + (minimum - duration), 23:55 of
\* the day and the next entry start; it is one record if that is after the
\* block's end and none otherwise.  Block and padding together never last
\* longer than the minimum, and exactly the minimum when no clamp applies.
C11_PaddingFillsShortfall ==
    pc = "padded" =>
        \A c \in CaseIds :
            \A b \in 1 .. Len(BlocksOfCase(c)) :
                LET block    == BlocksOfCase(c)[b]
                    duration == block.endTime - block.startTime
                    minimum  == MinimumOfCase(c)
                    T        == getNextEntryStart(resolved, block.endTime, BlockIds(block))
                    wanted   == block.endTime + (minimum - duration)
                    byDay    == IF wanted > 23 * 60 + 55 THEN 23 * 60 + 55 ELSE wanted
                    end      == IF T # NULL /\ T < byDay THEN T ELSE byDay
                    pad      == PaddingFor(block)
                IN  duration < minimum =>
                        IF end > block.endTime
                        THEN /\ Len(pad) = 1
                             /\ pad[1].startTime = block.endTime
                             /\ pad[1].endTime = end
                             /\ duration + (pad[1].endTime - pad[1].startTime) <= minimum
                             /\ end = wanted =>
                                   duration + (pad[1].endTime - pad[1].startTime) = minimum
                        ELSE Len(pad) = 0

\* C11 witness: a block short of its minimum got a padding record that ends
\* before 23:55 and before any next entry, and fills the minimum exactly.
C11_Witness ==
    /\ pc = "padded"
    /\ \E c \in CaseIds :
          \E b \in 1 .. Len(BlocksOfCase(c)) :
              LET block == BlocksOfCase(c)[b]
                  T     == getNextEntryStart(resolved, block.endTime, BlockIds(block))
                  pad   == PaddingFor(block)
              IN  /\ block.endTime - block.startTime < MinimumOfCase(c)
                  /\ Len(pad) = 1
                  /\ pad[1].endTime < END_OF_DAY_LIMIT_MINUTES
                  /\ T = NULL \/ pad[1].endTime < T
                  /\ pad[1].endTime - block.startTime = MinimumOfCase(c)

-----------------------------------------------------------------------------
(* C12 *)

ResolvedOfCase(c) == SelectSeq(resolved, LAMBDA r : CaseOf(r.phaseId) = c)

\* C12: every padding record belongs to an entry whose phase has a case
\* configuration with a minimum above 0; the contiguous work of that case
\* that ends where the padding starts is shorter than the minimum (the
\* minimum's worth of minutes before the padding is not all covered by the
\* case's records); and no case has two padding records for the same block,
\* that is, starting at the same block end.
C12_PaddingOnlyWherePolicyRequires ==
    pc = "padded" =>
        \A i \in 1 .. Len(padding) :
            LET p      == padding[i]
                config == getCaseConfig(p.phaseId)
            IN  /\ \E k \in 1 .. Len(resolved) :
                      /\ resolved[k].hourEntryId = p.hourEntryId
                      /\ resolved[k].phaseId = p.phaseId
                /\ config # NoConfig
                /\ config[1].minBillableTimeInMin > 0
                /\ LET mine    == ResolvedOfCase(config[1].caseId)
                       covered == Covered(mine)
                   IN  /\ \E k \in 1 .. Len(mine) : mine[k].endTime = p.startTime
                       /\ \E u \in p.startTime - config[1].minBillableTimeInMin
                                      .. p.startTime - 1 : u \notin covered
                /\ \A j \in 1 .. Len(padding) :
                      (j # i /\ CaseOf(padding[j].phaseId) = config[1].caseId)
                          => padding[j].startTime # p.startTime

\* C12 witness: applyMinimumBilling has seen an entry without case
\* configuration next to an entry of a case with a minimum, and has padded
\* the latter.
C12_Witness ==
    /\ pc = "padded"
    /\ \E k \in 1 .. Len(resolved) : getCaseConfig(resolved[k].phaseId) = NoConfig
    /\ Len(padding) = 1

-----------------------------------------------------------------------------
(* C13 *)

\* C13: a raw interval whose start and end are multiples of 5 minutes is
\* rounded to itself with both flags false; startRounded (endRounded) is true
\* exactly when the rounded start (end) is not the original one; and rounding
\* a rounded record's interval once more gives that interval, flags false.
C13_RoundingIdempotent ==
    pc = "rounded" =>
        \A i \in 1 .. Len(rounded) :
            LET r     == rounded[i]
                again == applyPrecisionRounding(
                            << RawEntry(r.hourEntryId, r.phaseId, r.startTime, r.endTime) >>)
            IN  /\ r.startRounded <=> r.startTime # r.originalStartTime
                /\ r.endRounded <=> r.endTime # r.originalEndTime
                /\ (r.originalStartTime % 5 = 0 /\ r.originalEndTime % 5 = 0)
                      => /\ r.startTime = r.originalStartTime
                         /\ r.endTime = r.originalEndTime
                         /\ ~r.startRounded /\ ~r.endRounded
                /\ Len(again) = 1
                /\ again[1].startTime = r.startTime
                /\ again[1].endTime = r.endTime
                /\ ~again[1].startRounded /\ ~again[1].endRounded

\* C13 witness: one raw entry on the grid at both ends and one off the grid
\* at both ends have been rounded.
C13_Witness ==
    /\ pc = "rounded"
    /\ \E i \in 1 .. Len(rounded) :
          /\ rounded[i].originalStartTime % 5 = 0
          /\ rounded[i].originalEndTime % 5 = 0
          /\ ~rounded[i].startRounded /\ ~rounded[i].endRounded
    /\ \E i \in 1 .. Len(rounded) :
          rounded[i].startRounded /\ rounded[i].endRounded

-----------------------------------------------------------------------------
(* C15 *)

\* C15: the output of applyPrecisionRounding has no record of an entry
\* without an end, exactly one record of every other entry, and its records
\* are in ascending order of their rounded start.
C15_OneRecordPerFinishedEntry ==
    pc = "rounded" =>
        /\ \A k \in 1 .. Len(entries) :
              Cardinality({ i \in 1 .. Len(rounded) : rounded[i].hourEntryId = entries[k].id })
                  = IF entries[k].endTime = NULL THEN 0 ELSE 1
        /\ \A i \in 1 .. Len(rounded) :
              \E k \in 1 .. Len(entries) : entries[k].id = rounded[i].hourEntryId
        /\ \A i, j \in 1 .. Len(rounded) :
              i < j => rounded[i].startTime <= rounded[j].startTime

\* C15 witness: of two entries handed over, the later one first, both have
\* been rounded and put out in the order of their rounded starts.
C15_Witness ==
    /\ pc = "rounded"
    /\ Len(entries) = 2
    /\ Len(rounded) = 2
    /\ entries[1].startTime > entries[2].startTime
    /\ rounded[1].startTime < rounded[2].startTime
    /\ rounded[1].hourEntryId = entries[2].id

-----------------------------------------------------------------------------
(* C16 *)

\* what the merge must hand on of a record as it is
KeyOf(r) == <<r.hourEntryId, r.startTime, r.endTime, r.source>>

CountOf(seq, key) == Cardinality({ i \in 1 .. Len(seq) : KeyOf(seq[i]) = key })

KeysOf(seq) == { KeyOf(seq[i]) : i \in 1 .. Len(seq) }

\* C16: the merged sequence holds every rounded record and every padding
\* record as often as they were handed in, with id, start, end and source as
\* they were, and nothing else; it is in ascending order of start, and so is
\* the output of applyMinimumBilling.
C16_MergeIsSortedUnion ==
    pc = "merged" =>
        /\ Len(merged) = Len(resolved) + Len(padding)
        /\ \A key \in KeysOf(merged) \cup KeysOf(resolved) \cup KeysOf(padding) :
              CountOf(merged, key) = CountOf(resolved, key) + CountOf(padding, key)
        /\ \A i, j \in 1 .. Len(merged) :
              i < j => merged[i].startTime <= merged[j].startTime
        /\ \A i, j \in 1 .. Len(padding) :
              i < j => padding[i].startTime <= padding[j].startTime

\* C16 witness: the merge has put a padding record before a rounded record
\* that starts later.
C16_Witness ==
    /\ pc = "merged"
    /\ Len(padding) >= 1
    /\ \E i, j \in 1 .. Len(merged) :
          /\ i < j
          /\ IsPadding(merged[i])
          /\ ~IsPadding(merged[j])
          /\ merged[i].startTime < merged[j].startTime

-----------------------------------------------------------------------------
(* C17 *)

\* the records whose phase has a case configuration
Configured(seq) == SelectSeq(seq, LAMBDA r : getCaseConfig(r.phaseId) # NoConfig)

\* applyMinimumBilling on `es` with a next-entry lookup that knows `known`
PaddingGiven(es, known) ==
    SortByStart(PaddingOfCases(es, CaseOrder(es, 1, <<>>), 1, known))

\* C17: applyMinimumBilling's output for a list with entries whose case
\* configuration is missing is its output for the list without them, the
\* lookup for the next entry start answering as in the run; no padding record
\* refers to such an entry.
C17_MissingConfigIsSkipped ==
    pc = "padded" =>
        /\ padding = PaddingGiven(Configured(resolved), resolved)
        /\ \A i \in 1 .. Len(padding) : getCaseConfig(padding[i].phaseId) # NoConfig

\* C17 witness: the run had an entry without case configuration that starts
\* before the padding of another entry does.
C17_Witness ==
    /\ pc = "padded"
    /\ \E k \in 1 .. Len(resolved) :
          /\ getCaseConfig(resolved[k].phaseId) = NoConfig
          /\ \E i \in 1 .. Len(padding) : resolved[k].startTime < padding[i].startTime

-----------------------------------------------------------------------------
(* C18 *)

\* C18: every stored entry with an end has its end after its start, on the
\* local calendar day of its start, and neither of the two times in the
\* last five minutes of a day, whatever createHourEntry and updateHourEntry
\* calls have succeeded before.
C18_StoredEntriesValid ==
    \A i \in 1 .. Len(store) :
        LET row == store[i]
        IN  row.endTime # NULL =>
                /\ row.endTime > row.startTime
                /\ row.startTime \div (24 * 60) = row.endTime \div (24 * 60)
                /\ row.startTime % (24 * 60) < 23 * 60 + 55
                /\ row.endTime % (24 * 60) < 23 * 60 + 55

\* C18 witness: two entries are stored, and an update has been written to
\* one that now lies, with an end, on the second day.
C18_Witness ==
    /\ Len(store) = 2
    /\ updating = NoCall
    /\ \E i \in 1 .. Len(store) :
          /\ store[i].updatedAt = "updated"
          /\ store[i].endTime # NULL
          /\ LocalDate(store[i].startTime) = 2

-----------------------------------------------------------------------------
(* C19 *)

\* the minutes two intervals share
OverlapOf(a, b) ==
    Cardinality((a.startTime .. a.endTime - 1) \cap (b.startTime .. b.endTime - 1))

\* C19: Phase A puts out the records it was given, in their order, with
\* nothing but the start possibly changed; and a record that, as it enters,
\* shares with every record placed before it no minute or a number of
\* minutes other than 5 keeps its start as well.
C19_OnlyExactIntervalOverlapFires ==
    pc = "precise" =>
        /\ Len(precise) = Len(rounded)
        /\ \A i \in 1 .. Len(precise) :
              /\ precise[i] = [rounded[i] EXCEPT !.startTime = precise[i].startTime]
              /\ (\A j \in 1 .. i - 1 : OverlapOf(precise[j], rounded[i]) # 5)
                    => precise[i].startTime = rounded[i].startTime

\* C19 witness: a record that shares ten minutes or more with an earlier
\* record of its customer, and five with none, has kept its start.
C19_Witness ==
    /\ pc = "precise"
    /\ \E i \in 1 .. Len(precise) :
          /\ \E j \in 1 .. i - 1 :
                /\ OverlapOf(precise[j], rounded[i]) >= 10
                /\ getCustomerId(precise[j].phaseId) = getCustomerId(rounded[i].phaseId)
          /\ \A j \in 1 .. i - 1 : OverlapOf(precise[j], rounded[i]) # 5
          /\ precise[i] = rounded[i]

-----------------------------------------------------------------------------
(* C20 *)

CustomerOf(r) == getCustomerId(r.phaseId)

\* the records placed before the i-th that resolve to its customer
EarlierOfCustomer(i) ==
    { j \in 1 .. i - 1 : CustomerOf(precise[j]) = CustomerOf(rounded[i]) }

\* C20: Phase A leaves the start of a record whose customer lookup answers
\* null as it was; a record whose start it has moved resolves to a customer
\* and shares minutes with a record placed before it that resolves to the
\* same customer; and it moves a start by at most one interval for each
\* earlier record of the same customer, however many records of other
\* customers the record overlaps.
C20_PostponedOnlyAgainstOwnCustomer ==
    pc = "precise" =>
        \A i \in 1 .. Len(precise) :
            /\ CustomerOf(rounded[i]) = NULL => precise[i].startTime = rounded[i].startTime
            /\ precise[i].startTime # rounded[i].startTime =>
                  /\ CustomerOf(rounded[i]) # NULL
                  /\ \E j \in EarlierOfCustomer(i) : Intersect(precise[j], rounded[i])
            /\ precise[i].startTime - rounded[i].startTime
                  <= 5 * Cardinality(EarlierOfCustomer(i))

\* C20 witness: two records without a customer share exactly five minutes,
\* and the later one has kept its start.
C20_Witness ==
    /\ pc = "precise"
    /\ Len(precise) = 2
    /\ CustomerOf(precise[1]) = NULL
    /\ CustomerOf(precise[2]) = NULL
    /\ precise[1].endTime - rounded[2].startTime = 5
    /\ precise[2].endTime >= precise[1].endTime
    /\ precise[2].startTime = rounded[2].startTime

-----------------------------------------------------------------------------
(* C21 *)

\* the record of a sequence that belongs to the entry with the given id
RecordOf(seq, id) == seq[CHOOSE i \in 1 .. Len(seq) : seq[i].hourEntryId = id]

\* C21: when the run has two rounded records, both of one resolved customer,
\* that share exactly five minutes, applyHoursBalanceRounding puts out the
\* earlier one as it was and the later one with its start moved to the
\* earlier one's end, both tagged 'inside-rounded'.
C21_ExactOverlapResolvedNotOvertime ==
    (/\ pc = "resolved"
     /\ Len(rounded) = 2
     /\ CustomerOf(rounded[1]) # NULL
     /\ CustomerOf(rounded[1]) = CustomerOf(rounded[2])
     /\ OverlapOf(rounded[1], rounded[2]) = 5)
        => /\ Len(resolved) = 2
           /\ RecordOf(resolved, rounded[1].hourEntryId) = rounded[1]
           /\ RecordOf(resolved, rounded[2].hourEntryId)
                 = [rounded[2] EXCEPT !.startTime = rounded[1].endTime]

-----------------------------------------------------------------------------
(* C22 *)

\* C22: the blocks of a case hold every entry of the case exactly once; in a
\* block every entry but the first starts at or before the latest end of the
\* entries before it; a block starts at the least start and ends at the
\* greatest end of its entries; and each block ends a positive time before
\* the next one starts.
C22_BlocksPartitionCase ==
    pc = "padded" =>
        \A c \in CaseIds :
            LET es     == EntriesOfCase(resolved, c)
                blocks == BlocksOfCase(c)
            IN  /\ \A k \in 1 .. Len(es) :
                      Cardinality({ b \in 1 .. Len(blocks) :
                          \E m \in 1 .. Len(blocks[b].entries) :
                              blocks[b].entries[m] = es[k] }) = 1
                /\ \A b \in 1 .. Len(blocks) :
                      LET in == blocks[b].entries
                      IN  /\ Len(in) >= 1
                          /\ \A m \in 1 .. Len(in) : \E k \in 1 .. Len(es) : es[k] = in[m]
                          /\ \A m, n \in 1 .. Len(in) :
                                m # n => in[m].hourEntryId # in[n].hourEntryId
                          /\ \A m \in 2 .. Len(in) :
                                \E n \in 1 .. m - 1 : in[m].startTime <= in[n].endTime
                          /\ \E m \in 1 .. Len(in) : blocks[b].startTime = in[m].startTime
                          /\ \A m \in 1 .. Len(in) : blocks[b].startTime <= in[m].startTime
                          /\ \E m \in 1 .. Len(in) : blocks[b].endTime = in[m].endTime
                          /\ \A m \in 1 .. Len(in) : blocks[b].endTime >= in[m].endTime
                /\ \A b \in 1 .. Len(blocks) - 1 :
                      blocks[b].endTime < blocks[b + 1].startTime

\* C22 witness: a case has a block of two entries and, after a gap, another
\* block.
C22_Witness ==
    /\ pc = "padded"
    /\ \E c \in CaseIds :
          LET blocks == BlocksOfCase(c)
          IN  /\ Len(blocks) = 2
              /\ Len(blocks[1].entries) = 2
              /\ blocks[1].endTime < blocks[2].startTime

-----------------------------------------------------------------------------
(* C23 *)

\* C23: every padding record starts at the end of a block of its case and
\* carries the id (as hourEntryId and as originalHourEntryId), the phase and
\* the worktype of an entry of that block than which no entry of the block
\* starts earlier; its source is 'inside-minimum-billable-time'.
C23_PaddingRefersToFirstEntry ==
    pc = "padded" =>
        \A i \in 1 .. Len(padding) :
            LET p      == padding[i]
                blocks == BlocksOfCase(CaseOf(p.phaseId))
            IN  /\ p.source = "inside-minimum-billable-time"
                /\ \E b \in 1 .. Len(blocks) :
                      LET in == blocks[b].entries
                      IN  /\ blocks[b].endTime = p.startTime
                          /\ \E m \in 1 .. Len(in) :
                                /\ p.hourEntryId = in[m].hourEntryId
                                /\ p.originalHourEntryId = in[m].hourEntryId
                                /\ p.phaseId = in[m].phaseId
                                /\ p.worktypeId = in[m].worktypeId
                                /\ \A n \in 1 .. Len(in) : in[m].startTime <= in[n].startTime

\* C23 witness: a block of two entries that start at different times has a
\* padding record.
C23_Witness ==
    /\ pc = "padded"
    /\ \E c \in CaseIds :
          \E b \in 1 .. Len(BlocksOfCase(c)) :
              LET block == BlocksOfCase(c)[b]
              IN  /\ Len(block.entries) = 2
                  /\ block.entries[1].startTime < block.entries[2].startTime
                  /\ Len(PaddingFor(block)) = 1

-----------------------------------------------------------------------------
(* C24 *)

\* C24: every padding record starts before it ends; a block short of its
\* minimum that ends at 23:55, or at whose end the next entry starts, has no
\* padding record.
C24_PaddingHasPositiveDuration ==
    pc = "padded" =>
        /\ \A i \in 1 .. Len(padding) : padding[i].startTime < padding[i].endTime
        /\ \A c \in CaseIds :
              \A b \in 1 .. Len(BlocksOfCase(c)) :
                  LET block == BlocksOfCase(c)[b]
                      T     == getNextEntryStart(resolved, block.endTime, BlockIds(block))
                  IN  (T = block.endTime \/ block.endTime % (24 * 60) >= 23 * 60 + 55)
                          => \A i \in 1 .. Len(padding) :
                                ~(/\ padding[i].startTime = block.endTime
                                  /\ padding[i].hourEntryId \in BlockIds(block))

\* C24 witness: one block short of its minimum has the next entry starting
\* at its end, another ends at 23:55, and neither has a padding record.
C24_Witness ==
    /\ pc = "padded"
    /\ padding = <<>>
    /\ \E c \in CaseIds :
          \E b \in 1 .. Len(BlocksOfCase(c)) :
              LET block == BlocksOfCase(c)[b]
              IN  /\ block.endTime - block.startTime < MinimumOfCase(c)
                  /\ block.endTime < END_OF_DAY_LIMIT_MINUTES
                  /\ getNextEntryStart(resolved, block.endTime, BlockIds(block)) = block.endTime
    /\ \E c \in CaseIds :
          \E b \in 1 .. Len(BlocksOfCase(c)) :
              LET block == BlocksOfCase(c)[b]
              IN  /\ block.endTime - block.startTime < MinimumOfCase(c)
                  /\ block.endTime = END_OF_DAY_LIMIT_MINUTES

-----------------------------------------------------------------------------
(* C25 *)

\* C25: with the calls running one after the other, once a user's day holds
\* a confirmed entry that is not deleted, no step leaves a draft entry of
\* that user starting in that day unless the entry started in that day
\* before the step: createHourEntry adds none and updateHourEntry moves none
\* into the day.
C25_LockedDayStaysClosed ==
    [][ \A i \in 1 .. Len(store') :
            ( /\ store'[i].status = "draft"
              /\ isDayLocked(store, store'[i].userId, store'[i].startTime) )
            => /\ i <= Len(store)
               /\ LocalDate(store[i].startTime) = LocalDate(store'[i].startTime)
      ]_vars

-----------------------------------------------------------------------------
(* C26 *)

\* C26: with the database steps of concurrent calls interleaved, an entry
\* that is confirmed stays confirmed, keeps its start, its end and its
\* description, and is not soft-deleted, whatever step comes next.
C26_ConfirmedEntryImmutable ==
    [][ \A i \in 1 .. Len(store) :
            store[i].status = "confirmed"
            => /\ store'[i].status = "confirmed"
               /\ store'[i].startTime = store[i].startTime
               /\ store'[i].endTime = store[i].endTime
               /\ store'[i].description = store[i].description
               /\ store'[i].deletedAt = store[i].deletedAt
      ]_vars

-----------------------------------------------------------------------------
(* C27 *)

\* the draft entries of the user and local day of row i that are not deleted
DraftsWith(rows, i) ==
    { j \in 1 .. Len(rows) :
        /\ rows[j].userId = rows[i].userId
        /\ rows[j].startTime \div (24 * 60) = rows[i].startTime \div (24 * 60)
        /\ rows[j].status = "draft"
        /\ rows[j].deletedAt = NULL }

\* the entry has what confirmDay requires
Complete(row) == row.description # NULL /\ row.endTime # NULL

\* C27: with the calls running one after the other, a call that throws
\* leaves the table as it was; an entry changes status only to confirmed
\* and only when every draft of its user and day is complete, so confirmDay
\* confirms nothing when a draft of the day lacks a field; and when
\* confirmDay returns, no draft of that user and day is left.
C27_FailedCallChangesNothing ==
    [][ /\ thrown' # NoError => store' = store
        /\ \A i \in 1 .. Len(store) :
              store'[i].status # store[i].status
              => /\ store'[i].status = "confirmed"
                 /\ \A j \in DraftsWith(store, i) : Complete(store[j])
                 /\ confirming' = NoCall => DraftsWith(store', i) = {}
      ]_vars

\* C27 witness: confirmDay has thrown MISSING_END_TIME on a day with two
\* drafts of one user, one of them complete, and both are drafts still.
C27_Witness ==
    /\ thrown = "MISSING_END_TIME"
    /\ Len(store) = 2
    /\ DraftsWith(store, 1) = {1, 2}
    /\ \E i \in {1, 2} : Complete(store[i])
    /\ \E i \in {1, 2} : store[i].endTime = NULL

-----------------------------------------------------------------------------
(* C28 *)

\* C28: after applyMinimumBilling, no padding record shares a minute with a
\* rounded record of the run, of whatever case, nor with another padding
\* record.
C28_PaddingIntersectsNothing ==
    pc = "padded" =>
        \A i \in 1 .. Len(padding) :
            /\ \A j \in 1 .. Len(resolved) : OverlapOf(padding[i], resolved[j]) = 0
            /\ \A j \in 1 .. Len(padding) :
                  j # i => OverlapOf(padding[i], padding[j]) = 0

-----------------------------------------------------------------------------
(* C29 *)

\* C29: the output of applyHoursBalanceRounding is in ascending order of
\* start time, the postponed starts included, and holds no two records of
\* one entry id and no record of an id that was not handed in.
C29_OutputAscendingOnePerEntry ==
    pc = "resolved" =>
        /\ \A i \in 1 .. Len(resolved) - 1 :
              resolved[i].startTime <= resolved[i + 1].startTime
        /\ \A i, j \in 1 .. Len(resolved) :
              resolved[i].hourEntryId = resolved[j].hourEntryId => i = j
        /\ \A i \in 1 .. Len(resolved) :
              \E k \in 1 .. Len(entries) : entries[k].id = resolved[i].hourEntryId

\* C29 witness: Phase A has postponed an entry past the start of the entry
\* that follows it, and the output holds the two in the other order.
C29_Witness ==
    /\ pc = "resolved"
    /\ \E i \in 1 .. Len(precise) - 1 :
          /\ precise[i].startTime > rounded[i].startTime
          /\ precise[i].startTime > precise[i + 1].startTime
          /\ \E a, b \in 1 .. Len(resolved) :
                /\ a < b
                /\ resolved[a].hourEntryId = precise[i + 1].hourEntryId
                /\ resolved[b].hourEntryId = precise[i].hourEntryId

-----------------------------------------------------------------------------
(* C30 *)

\* the sequences that hold the elements of seq in some order
PermutationsOf(seq) ==
    { [i \in 1 .. Len(seq) |-> seq[f[i]]] :
        f \in { g \in [1 .. Len(seq) -> 1 .. Len(seq)] :
                    \A i, j \in 1 .. Len(seq) : g[i] = g[j] => i = j } }

\* the records of a sequence, their order put aside
RecordsOf(seq) == { seq[i] : i \in 1 .. Len(seq) }

\* C30: handed the same raw entries in any other order,
\* applyHoursBalanceRounding yields the same set of records: the same
\* starts, ends and sources for every entry.
C30_ResultIndependentOfOrder ==
    pc = "resolved" =>
        \A other \in PermutationsOf(entries) :
            RecordsOf(applyHoursBalanceRounding(other)) = RecordsOf(resolved)

====
